---- MODULE Spec2Model ----
(***************************************************************************)
(* Model of lakehouse_engine/algorithms/data_loader.py: the DataLoader     *)
(* algorithm (construction from an ACON, read(), write(data), execute()).  *)
(* ReaderFactory.get_data and WriterFactory.get_writer(...).write() are    *)
(* external collaborators: each call nondeterministically succeeds with    *)
(* one of a small set of results or raises an opaque error.                *)
(***************************************************************************)
EXTENDS Integers, Sequences, FiniteSets, TLC

\* ---------------------------------------------------------------- bounds
MaxInputs == 2
MaxOutputs == 2

\* ------------------------------------------------------ value universes
InputIds == {"a", "b"}
OutputIds == {"o", "s"}
RefIds == {"a", "b", "o"}
Handles == {"H1", "H2"}

SeqsUpTo(S, n) == UNION {[1..k -> S] : k \in 0..n}

\* ---------------------------------------------- OrderedDict (lines 3, 91)
\* An OrderedDict is a sequence of <<key, value>> pairs with distinct keys,
\* in insertion order.
EmptyDict == <<>>

Keys(d) == {d[n][1] : n \in 1..Len(d)}

HasKey(d, k) == \E n \in 1..Len(d) : d[n][1] = k

GetItem(d, k) == d[CHOOSE n \in 1..Len(d) : d[n][1] = k][2]

SetItem(d, k, v) ==
    IF HasKey(d, k)
    THEN [n \in 1..Len(d) |-> IF d[n][1] = k THEN <<k, v>> ELSE d[n]]
    ELSE Append(d, <<k, v>>)

\* Variant of Update that keeps the value of a key already present
\* (dict.setdefault semantics instead of dict.update).
RECURSIVE UpdateKeepFirst(_, _)
UpdateKeepFirst(d, m) ==
    IF m = <<>> THEN d
    ELSE UpdateKeepFirst(IF HasKey(d, Head(m)[1]) THEN d
                         ELSE Append(d, Head(m)), Tail(m))

RECURSIVE Update(_, _)
Update(d, m) ==
    IF m = <<>> THEN d
    ELSE Update(SetItem(d, Head(m)[1], Head(m)[2]), Tail(m))

\* ------------------------------------------------------------- errors
KeyError(k) == [type |-> "KeyError", arg |-> k]
BackendError(e) == [type |-> "Backend", arg |-> e]
NoHandle == "-"
NoError == [type |-> "-", arg |-> "-"]

\* --------------------------------------------------- external dispatch
\* ReaderFactory.get_data(spec): returns a handle or raises.
ReaderOutcomes ==
    {[tag |-> "ok", h |-> h, err |-> NoError] : h \in Handles}
    \cup {[tag |-> "err", h |-> NoHandle, err |-> BackendError("E1")]}

\* WriterFactory.get_writer(spec, df, data).write(): returns None, a
\* (possibly empty) mapping of names to handles, or raises.
WriterMaps ==
    { <<>>,
      << <<"s", "H1">> >>,
      << <<"s", "H2">> >>,
      << <<"o", "H2">>, <<"s", "H1">> >> }

WriterOutcomes ==
    {[tag |-> "none", map |-> <<>>, err |-> NoError]}
    \cup {[tag |-> "map", map |-> m, err |-> NoError] : m \in WriterMaps}
    \cup {[tag |-> "err", map |-> <<>>, err |-> BackendError("E2")]}

\* What a writer call leaves in the external store: a successful write is
\* committed under the output spec's id, a failed one commits nothing.
WriterEffect(st, spec, out) ==
    IF out.tag # "err" THEN Append(st, spec.spec_id) ELSE st

\* Variant of Truthy that only tests for None (written_output is not None).
TruthyNotNone(out) == out.tag = "map"

\* Python truthiness of a writer result (line 121): None and {} are falsy.
Truthy(out) == out.tag = "map" /\ out.map # <<>>

\* ------------------------------------------------- configuration (ACON)
RawInputEntries == {[spec_id |-> s] : s \in InputIds}
RawOutputEntries == {[spec_id |-> s, input_id |-> r] : s \in OutputIds, r \in RefIds}

Acons ==
    {[input_specs |-> ins, output_specs |-> outs] :
        ins \in SeqsUpTo(RawInputEntries, MaxInputs),
        outs \in SeqsUpTo(RawOutputEntries, MaxOutputs)}
    \cup {[input_specs |-> ins] : ins \in SeqsUpTo(RawInputEntries, 1)}
    \cup {[output_specs |-> outs] : outs \in SeqsUpTo(RawOutputEntries, 1)}
    \cup {[other |-> <<>>]}

\* Registries a caller may hand to write(data) directly.
Registries ==
    {d \in SeqsUpTo(InputIds \X Handles, Cardinality(InputIds)) :
        \A m, n \in 1..Len(d) : d[m][1] = d[n][1] => m = n}

\* acon          the configuration dict given to __init__ (line 35)
\* input_specs   self.input_specs (line 55)
\* output_specs  self.output_specs (line 56)
\* pc            control position: New (before __init__), ConstructFailed,
\*               NotStarted (constructed), Reading (in read(), lines 91-95),
\*               Writing (in write(), lines 114-126), Completed, Failed
\* call          the public method the caller invoked: read, write, execute
\* i, j          positions of the loops at lines 92 and 115 (0: not entered)
\* read_dfs      local read_dfs of read() (line 91)
\* data          parameter data of write() (line 97)
\* written_dfs   local written_dfs of write() (line 114)
\* raised        <<e>> once exception e reached the caller, else <<>>
\* ret           <<v>> once v was returned to the caller, else <<>>
\* events        trace of logger calls, print and dispatch calls, in order
\* readOut       outcome of each ReaderFactory.get_data call, in call order
\* writeOut      outcome of each writer .write() call, in call order
\* store         the external store: what successful writer calls committed
\* prev          <<r>> once an earlier run on this object ended, r recording
\*               that run's dispatch outcomes and result; else <<>>
VARIABLES acon, input_specs, output_specs, pc, call, i, j,
          read_dfs, data, written_dfs, raised, ret, events, readOut, writeOut,
          store, prev

vars == <<acon, input_specs, output_specs, pc, call, i, j,
          read_dfs, data, written_dfs, raised, ret, events, readOut, writeOut,
          store, prev>>

Ev(kind, idx, id) == [ev |-> kind, idx |-> idx, id |-> id]

Init ==
    /\ acon \in Acons
    /\ input_specs = <<>>
    /\ output_specs = <<>>
    /\ pc = "New"
    /\ call = "none"
    /\ i = 0
    /\ j = 0
    /\ read_dfs = EmptyDict
    /\ data = EmptyDict
    /\ written_dfs = EmptyDict
    /\ raised = <<>>
    /\ ret = <<>>
    /\ events = <<>>
    /\ readOut = <<>>
    /\ writeOut = <<>>
    /\ store = <<>>
    /\ prev = <<>>

\* ------------------------------------------------ construction (35-83)
\* dict.get(key, default)
Get(spec, key, default) == IF key \in DOMAIN spec THEN spec[key] ELSE default

DELTAFILES == "delta"

_get_input_specs(doc) == [n \in 1..Len(doc["input_specs"]) |-> doc["input_specs"][n]]

\* Variant of OutputSpec that leaves data_format absent when omitted.
OutputSpecNoFormat(spec) ==
    [spec_id |-> spec["spec_id"],
     input_id |-> spec["input_id"],
     write_type |-> Get(spec, "write_type", "None"),
     data_format |-> Get(spec, "data_format", "None"),
     db_table |-> Get(spec, "db_table", "None"),
     location |-> Get(spec, "location", "None"),
     partitions |-> Get(spec, "partitions", <<>>)]

OutputSpec(spec) ==
    [spec_id |-> spec["spec_id"],
     input_id |-> spec["input_id"],
     write_type |-> Get(spec, "write_type", "None"),
     data_format |-> Get(spec, "data_format", DELTAFILES),
     db_table |-> Get(spec, "db_table", "None"),
     location |-> Get(spec, "location", "None"),
     partitions |-> Get(spec, "partitions", <<>>)]

_get_output_specs(doc) ==
    [n \in 1..Len(doc["output_specs"]) |-> OutputSpec(doc["output_specs"][n])]

\* The key whose lookup fails during __init__, or "-" when none does:
\* input_specs is looked up first (line 55), output_specs second (line 56).
MissingCollection(doc) ==
    IF "input_specs" \notin DOMAIN doc THEN "input_specs"
    ELSE IF "output_specs" \notin DOMAIN doc THEN "output_specs"
    ELSE "-"

\* Variant of Construct that reads the collections with a default
\* (acon.get(key, [])) instead of acon[key].
ConstructLenient ==
    /\ pc = "New"
    /\ pc' = "NotStarted"
    /\ input_specs' = IF "input_specs" \in DOMAIN acon
                      THEN acon["input_specs"] ELSE <<>>
    /\ output_specs' = IF "output_specs" \in DOMAIN acon
                       THEN [n \in 1..Len(acon["output_specs"]) |->
                                OutputSpec(acon["output_specs"][n])]
                       ELSE <<>>
    /\ UNCHANGED <<store, prev, acon, call, i, j, read_dfs, data, written_dfs, raised, ret,
                   events, readOut, writeOut>>

\* Variant of Construct that checks every output spec's input_id against
\* the input spec_ids and rejects the document at construction.
ConstructValidating ==
    /\ pc = "New"
    /\ IF MissingCollection(acon) # "-"
       THEN /\ pc' = "ConstructFailed"
            /\ raised' = <<KeyError(MissingCollection(acon))>>
            /\ UNCHANGED <<input_specs, output_specs>>
       ELSE IF \E n \in 1..Len(acon["output_specs"]) :
                 \A m \in 1..Len(acon["input_specs"]) :
                    acon["input_specs"][m]["spec_id"]
                      # acon["output_specs"][n]["input_id"]
       THEN /\ pc' = "ConstructFailed"
            /\ raised' = <<KeyError("input_id")>>
            /\ UNCHANGED <<input_specs, output_specs>>
       ELSE /\ pc' = "NotStarted"
            /\ input_specs' = _get_input_specs(acon)
            /\ output_specs' = _get_output_specs(acon)
            /\ UNCHANGED raised
    /\ UNCHANGED <<store, prev, acon, call, i, j, read_dfs, data, written_dfs, ret,
                   events, readOut, writeOut>>

Construct ==
    /\ pc = "New"
    /\ IF MissingCollection(acon) # "-"
       THEN /\ pc' = "ConstructFailed"
            /\ raised' = <<KeyError(MissingCollection(acon))>>
            /\ UNCHANGED <<input_specs, output_specs>>
       ELSE /\ pc' = "NotStarted"
            /\ input_specs' = _get_input_specs(acon)
            /\ output_specs' = _get_output_specs(acon)
            /\ UNCHANGED raised
    /\ UNCHANGED <<store, prev, acon, call, i, j, read_dfs, data, written_dfs, ret,
                   events, readOut, writeOut>>

\* ------------------------------------------------------ read() (85-95)
\* A caller invokes read() directly on a constructed DataLoader.
ReadCall ==
    /\ pc = "NotStarted"
    /\ call' = "read"
    /\ pc' = "Reading"
    /\ read_dfs' = EmptyDict
    /\ i' = 1
    /\ UNCHANGED <<store, prev, acon, input_specs, output_specs, j, data, written_dfs,
                   raised, ret, events, readOut, writeOut>>

\* Variant of ExecuteReraise that wraps the caught error in a new one.
ExecuteReraiseWrap(e) == [type |-> "RuntimeError", arg |-> e.arg]

\* execute() re-raises what it catches (lines 137-138).
ExecuteReraise(e) == e

\* What the caller of the running public method sees raised.
Propagate(e) == IF call = "execute" THEN ExecuteReraise(e) ELSE e

\* Variant of ReadStore that rebinds the registry to the one new entry.
ReadStoreRebind(d, spec, h) == << <<spec.spec_id, h>> >>

\* Variant of ReadStore that keeps the handle already stored under the
\* spec_id (read_dfs.setdefault).
ReadStoreKeepFirst(d, spec, h) ==
    IF HasKey(d, spec.spec_id) THEN d ELSE Append(d, <<spec.spec_id, h>>)

\* read_dfs[spec.spec_id] = <handle> (line 94).
ReadStore(d, spec, h) == SetItem(d, spec.spec_id, h)

\* Variant of ReadStep that swallows a reader failure and goes on with the
\* next input spec.
ReadStepSwallow ==
    /\ pc = "Reading"
    /\ i <= Len(input_specs)
    /\ \E out \in ReaderOutcomes :
          /\ readOut' = Append(readOut, out)
          /\ events' = events \o <<Ev("found_input", i, input_specs[i].spec_id),
                                 Ev("reader_dispatch", i, input_specs[i].spec_id)>>
          /\ read_dfs' = IF out.tag = "ok"
                         THEN SetItem(read_dfs, input_specs[i].spec_id, out.h)
                         ELSE read_dfs
          /\ i' = i + 1
    /\ UNCHANGED <<store, prev, acon, input_specs, output_specs, pc, call, j, data,
                   written_dfs, raised, ret, writeOut>>

\* Variant of ReadStep that logs the input spec after its dispatch has
\* returned (lines 93 and 94 exchanged).
ReadStepLogAfter ==
    /\ pc = "Reading"
    /\ i <= Len(input_specs)
    /\ \E out \in ReaderOutcomes :
          /\ readOut' = Append(readOut, out)
          /\ IF out.tag = "ok"
             THEN /\ events' = events \o
                       <<Ev("reader_dispatch", i, input_specs[i].spec_id),
                         Ev("found_input", i, input_specs[i].spec_id)>>
                  /\ read_dfs' = SetItem(read_dfs, input_specs[i].spec_id, out.h)
                  /\ i' = i + 1
                  /\ UNCHANGED <<pc, raised>>
             ELSE /\ events' = Append(events,
                                      Ev("reader_dispatch", i, input_specs[i].spec_id))
                  /\ raised' = <<Propagate(out.err)>>
                  /\ pc' = "Failed"
                  /\ UNCHANGED <<read_dfs, i>>
    /\ UNCHANGED <<store, prev, acon, input_specs, output_specs, call, j, data,
                   written_dfs, ret, writeOut>>

\* Variant of ReadStep that dispatches a failed read a second time before
\* giving up (one retry).
ReadStepRetryOnce ==
    /\ pc = "Reading"
    /\ i <= Len(input_specs)
    /\ \E out \in ReaderOutcomes :
          /\ readOut' = Append(readOut, out)
          /\ events' = events \o <<Ev("found_input", i, input_specs[i].spec_id),
                                 Ev("reader_dispatch", i, input_specs[i].spec_id)>>
          /\ IF out.tag = "ok"
             THEN /\ read_dfs' = SetItem(read_dfs, input_specs[i].spec_id, out.h)
                  /\ i' = i + 1
                  /\ UNCHANGED <<pc, raised>>
             ELSE IF readOut = <<>> \/ readOut[Len(readOut)].tag = "ok"
             THEN UNCHANGED <<read_dfs, i, pc, raised>>
             ELSE /\ raised' = <<Propagate(out.err)>>
                  /\ pc' = "Failed"
                  /\ UNCHANGED <<read_dfs, i>>
    /\ UNCHANGED <<store, prev, acon, input_specs, output_specs, call, j, data,
                   written_dfs, ret, writeOut>>

\* One iteration of the loop of read() (lines 92-94).
ReadStep ==
    /\ pc = "Reading"
    /\ i <= Len(input_specs)
    /\ \E out \in ReaderOutcomes :
          /\ readOut' = Append(readOut, out)
          /\ events' = events \o <<Ev("found_input", i, input_specs[i].spec_id),
                                 Ev("reader_dispatch", i, input_specs[i].spec_id)>>
          /\ IF out.tag = "ok"
             THEN /\ read_dfs' = ReadStore(read_dfs, input_specs[i], out.h)
                  /\ i' = i + 1
                  /\ UNCHANGED <<pc, raised>>
             ELSE /\ raised' = <<Propagate(out.err)>>
                  /\ pc' = "Failed"
                  /\ UNCHANGED <<read_dfs, i>>
    /\ UNCHANGED <<store, prev, acon, input_specs, output_specs, call, j, data, written_dfs,
                   ret, writeOut>>

\* return read_dfs (line 95), to a direct caller of read().
ReadReturn ==
    /\ pc = "Reading"
    /\ call = "read"
    /\ i > Len(input_specs)
    /\ ret' = <<read_dfs>>
    /\ pc' = "Completed"
    /\ UNCHANGED <<store, prev, acon, input_specs, output_specs, call, i, j, read_dfs, data,
                   written_dfs, raised, events, readOut, writeOut>>

\* ------------------------------------------------- write(data) (97-126)
\* A caller invokes write(data) directly with a registry of its own.
WriteCall ==
    /\ pc = "NotStarted"
    /\ \E d \in Registries : data' = d
    /\ call' = "write"
    /\ pc' = "Writing"
    /\ written_dfs' = EmptyDict
    /\ j' = 1
    /\ UNCHANGED <<store, prev, acon, input_specs, output_specs, i, read_dfs, raised, ret,
                   events, readOut, writeOut>>

\* Variant of WriteStore whose pass-through stores a copy of the input
\* dataset, a handle of its own.
CopyOf(h) == "copy"
WriteStoreCopy(w, spec, d, out) ==
    IF Truthy(out)
    THEN Update(w, out.map)
    ELSE SetItem(w, spec.spec_id, CopyOf(GetItem(d, spec.input_id)))

\* Lines 121-124: merge the returned mapping, or pass the input through.
WriteStore(w, spec, d, out) ==
    IF Truthy(out)
    THEN Update(w, out.map)
    ELSE SetItem(w, spec.spec_id, GetItem(d, spec.input_id))

\* Whether data[spec.input_id] (line 119) finds its key.
Resolves(d, spec) == HasKey(d, spec.input_id)

\* Variant of WriteStep that passes over an output spec whose input_id is
\* not in the registry (a silent no-op instead of the lookup error).
WriteStepSkipMissing ==
    /\ pc = "Writing"
    /\ j <= Len(output_specs)
    /\ IF ~HasKey(data, output_specs[j].input_id)
       THEN /\ events' = Append(events, Ev("found_output", j, output_specs[j].spec_id))
            /\ j' = j + 1
            /\ UNCHANGED <<written_dfs, writeOut, pc, raised>>
       ELSE \E out \in WriterOutcomes :
              /\ writeOut' = Append(writeOut, out)
              /\ events' = events \o <<Ev("found_output", j, output_specs[j].spec_id),
                                     Ev("writer_dispatch", j, output_specs[j].spec_id)>>
              /\ IF out.tag # "err"
                 THEN /\ written_dfs' =
                           IF Truthy(out) THEN Update(written_dfs, out.map)
                           ELSE SetItem(written_dfs, output_specs[j].spec_id,
                                        GetItem(data, output_specs[j].input_id))
                      /\ j' = j + 1
                      /\ UNCHANGED <<pc, raised>>
                 ELSE /\ raised' = <<Propagate(out.err)>>
                      /\ pc' = "Failed"
                      /\ UNCHANGED <<written_dfs, j>>
    /\ store' = IF Len(writeOut') > Len(writeOut)
                THEN WriterEffect(store, output_specs[j], writeOut'[Len(writeOut')])
                ELSE store
    /\ UNCHANGED <<acon, input_specs, output_specs, call, i, read_dfs, data,
                   ret, readOut, prev>>

\* Variant of WriteStep that does not dispatch an output spec whose spec_id
\* is already a key of written_dfs.
WriteStepSkipWritten ==
    /\ pc = "Writing"
    /\ j <= Len(output_specs)
    /\ IF ~HasKey(data, output_specs[j].input_id)
       THEN /\ events' = Append(events, Ev("found_output", j, output_specs[j].spec_id))
            /\ raised' = <<Propagate(KeyError(output_specs[j].input_id))>>
            /\ pc' = "Failed"
            /\ UNCHANGED <<written_dfs, j, writeOut>>
       ELSE IF HasKey(written_dfs, output_specs[j].spec_id)
       THEN /\ events' = Append(events, Ev("found_output", j, output_specs[j].spec_id))
            /\ j' = j + 1
            /\ UNCHANGED <<written_dfs, writeOut, pc, raised>>
       ELSE \E out \in WriterOutcomes :
              /\ writeOut' = Append(writeOut, out)
              /\ events' = events \o <<Ev("found_output", j, output_specs[j].spec_id),
                                     Ev("writer_dispatch", j, output_specs[j].spec_id)>>
              /\ IF out.tag # "err"
                 THEN /\ written_dfs' =
                           IF Truthy(out) THEN Update(written_dfs, out.map)
                           ELSE SetItem(written_dfs, output_specs[j].spec_id,
                                        GetItem(data, output_specs[j].input_id))
                      /\ j' = j + 1
                      /\ UNCHANGED <<pc, raised>>
                 ELSE /\ raised' = <<Propagate(out.err)>>
                      /\ pc' = "Failed"
                      /\ UNCHANGED <<written_dfs, j>>
    /\ store' = IF Len(writeOut') > Len(writeOut)
                THEN WriterEffect(store, output_specs[j], writeOut'[Len(writeOut')])
                ELSE store
    /\ UNCHANGED <<acon, input_specs, output_specs, call, i, read_dfs, data,
                   ret, readOut, prev>>

\* Variant of WriteStep that undoes the committed writes when a later
\* output spec fails (a compensating rollback).
WriteStepRollback ==
    /\ pc = "Writing"
    /\ j <= Len(output_specs)
    /\ IF ~HasKey(data, output_specs[j].input_id)
       THEN /\ events' = Append(events, Ev("found_output", j, output_specs[j].spec_id))
            /\ raised' = <<Propagate(KeyError(output_specs[j].input_id))>>
            /\ pc' = "Failed"
            /\ store' = <<>>
            /\ UNCHANGED <<written_dfs, j, writeOut>>
       ELSE \E out \in WriterOutcomes :
              /\ writeOut' = Append(writeOut, out)
              /\ events' = events \o <<Ev("found_output", j, output_specs[j].spec_id),
                                     Ev("writer_dispatch", j, output_specs[j].spec_id)>>
              /\ IF out.tag # "err"
                 THEN /\ written_dfs' =
                           IF Truthy(out) THEN Update(written_dfs, out.map)
                           ELSE SetItem(written_dfs, output_specs[j].spec_id,
                                        GetItem(data, output_specs[j].input_id))
                      /\ j' = j + 1
                      /\ store' = Append(store, output_specs[j].spec_id)
                      /\ UNCHANGED <<pc, raised>>
                 ELSE /\ raised' = <<Propagate(out.err)>>
                      /\ pc' = "Failed"
                      /\ store' = <<>>
                      /\ UNCHANGED <<written_dfs, j>>
    /\ UNCHANGED <<acon, input_specs, output_specs, call, i, read_dfs, data,
                   ret, readOut, prev>>

\* Variant of WriteStep that takes the input dataset out of the registry
\* when it is written (data.pop(spec.input_id) instead of data[...]).
WriteStepPop ==
    /\ pc = "Writing"
    /\ j <= Len(output_specs)
    /\ IF ~HasKey(data, output_specs[j].input_id)
       THEN /\ events' = Append(events, Ev("found_output", j, output_specs[j].spec_id))
            /\ raised' = <<Propagate(KeyError(output_specs[j].input_id))>>
            /\ pc' = "Failed"
            /\ UNCHANGED <<written_dfs, j, writeOut, data>>
       ELSE \E out \in WriterOutcomes :
              /\ writeOut' = Append(writeOut, out)
              /\ events' = events \o <<Ev("found_output", j, output_specs[j].spec_id),
                                     Ev("writer_dispatch", j, output_specs[j].spec_id)>>
              /\ data' = SelectSeq(data, LAMBDA e : e[1] # output_specs[j].input_id)
              /\ IF out.tag # "err"
                 THEN /\ written_dfs' =
                           IF Truthy(out) THEN Update(written_dfs, out.map)
                           ELSE SetItem(written_dfs, output_specs[j].spec_id,
                                        GetItem(data, output_specs[j].input_id))
                      /\ j' = j + 1
                      /\ UNCHANGED <<pc, raised>>
                 ELSE /\ raised' = <<Propagate(out.err)>>
                      /\ pc' = "Failed"
                      /\ UNCHANGED <<written_dfs, j>>
    /\ store' = IF Len(writeOut') > Len(writeOut)
                THEN WriterEffect(store, output_specs[j], writeOut'[Len(writeOut')])
                ELSE store
    /\ UNCHANGED <<acon, input_specs, output_specs, call, i, read_dfs,
                   ret, readOut, prev>>

\* Variant of WriteStep that also resolves input_id against the outputs
\* written so far (a lookup in data, then in written_dfs).
WriteStepChain ==
    /\ pc = "Writing"
    /\ j <= Len(output_specs)
    /\ IF ~HasKey(data \o written_dfs, output_specs[j].input_id)
       THEN /\ events' = Append(events, Ev("found_output", j, output_specs[j].spec_id))
            /\ raised' = <<Propagate(KeyError(output_specs[j].input_id))>>
            /\ pc' = "Failed"
            /\ UNCHANGED <<written_dfs, j, writeOut>>
       ELSE \E out \in WriterOutcomes :
              /\ writeOut' = Append(writeOut, out)
              /\ events' = events \o <<Ev("found_output", j, output_specs[j].spec_id),
                                     Ev("writer_dispatch", j, output_specs[j].spec_id)>>
              /\ IF out.tag # "err"
                 THEN /\ written_dfs' =
                           IF Truthy(out) THEN Update(written_dfs, out.map)
                           ELSE SetItem(written_dfs, output_specs[j].spec_id,
                                        GetItem(data \o written_dfs,
                                                output_specs[j].input_id))
                      /\ j' = j + 1
                      /\ UNCHANGED <<pc, raised>>
                 ELSE /\ raised' = <<Propagate(out.err)>>
                      /\ pc' = "Failed"
                      /\ UNCHANGED <<written_dfs, j>>
    /\ store' = IF Len(writeOut') > Len(writeOut)
                THEN WriterEffect(store, output_specs[j], writeOut'[Len(writeOut')])
                ELSE store
    /\ UNCHANGED <<acon, input_specs, output_specs, call, i, read_dfs, data,
                   ret, readOut, prev>>

\* One iteration of the loop of write() (lines 115-124).
WriteStep ==
    /\ pc = "Writing"
    /\ j <= Len(output_specs)
    /\ IF ~Resolves(data, output_specs[j])
       THEN /\ events' = Append(events, Ev("found_output", j, output_specs[j].spec_id))
            /\ raised' = <<Propagate(KeyError(output_specs[j].input_id))>>
            /\ pc' = "Failed"
            /\ UNCHANGED <<written_dfs, j, writeOut>>
       ELSE \E out \in WriterOutcomes :
              /\ writeOut' = Append(writeOut, out)
              /\ events' = events \o <<Ev("found_output", j, output_specs[j].spec_id),
                                     Ev("writer_dispatch", j, output_specs[j].spec_id)>>
              /\ IF out.tag # "err"
                 THEN /\ written_dfs' = WriteStore(written_dfs, output_specs[j], data, out)
                      /\ j' = j + 1
                      /\ UNCHANGED <<pc, raised>>
                 ELSE /\ raised' = <<Propagate(out.err)>>
                      /\ pc' = "Failed"
                      /\ UNCHANGED <<written_dfs, j>>
    /\ store' = IF Len(writeOut') > Len(writeOut)
                THEN WriterEffect(store, output_specs[j], writeOut'[Len(writeOut')])
                ELSE store
    /\ UNCHANGED <<acon, input_specs, output_specs, call, i, read_dfs, data,
                   ret, readOut, prev>>

\* return written_dfs (line 126), to a direct caller of write().
WriteReturn ==
    /\ pc = "Writing"
    /\ call = "write"
    /\ j > Len(output_specs)
    /\ ret' = <<written_dfs>>
    /\ pc' = "Completed"
    /\ UNCHANGED <<store, prev, acon, input_specs, output_specs, call, i, j, read_dfs, data,
                   written_dfs, raised, events, readOut, writeOut>>

\* ---------------------------------------------------- execute() (128-140)
\* Lines 131-132: log the milestone and enter read().
ExecuteCall ==
    /\ pc = "NotStarted"
    /\ call' = "execute"
    /\ events' = Append(events, Ev("starting_read", 0, "-"))
    /\ pc' = "Reading"
    /\ read_dfs' = EmptyDict
    /\ i' = 1
    /\ UNCHANGED <<store, prev, acon, input_specs, output_specs, j, data, written_dfs,
                   raised, ret, readOut, writeOut>>

\* Variant of ExecuteWriteStage that leaves the read loop one iteration
\* early (off by one in the loop bound).
ExecuteWriteStageEarly ==
    /\ pc = "Reading"
    /\ call = "execute"
    /\ i >= Len(input_specs)
    /\ events' = events \o <<Ev("print", 0, "-"), Ev("starting_write", 0, "-")>>
    /\ data' = read_dfs
    /\ written_dfs' = EmptyDict
    /\ j' = 1
    /\ pc' = "Writing"
    /\ UNCHANGED <<store, prev, acon, input_specs, output_specs, call, i, read_dfs, raised,
                   ret, readOut, writeOut>>

\* Variant of ExecuteWriteStage in which written_dfs is not created anew
\* when write() is entered (as if it were kept on the object).
ExecuteWriteStageKeep ==
    /\ pc = "Reading"
    /\ call = "execute"
    /\ i > Len(input_specs)
    /\ events' = events \o <<Ev("print", 0, "-"), Ev("starting_write", 0, "-")>>
    /\ data' = read_dfs
    /\ j' = 1
    /\ pc' = "Writing"
    /\ UNCHANGED <<store, prev, acon, input_specs, output_specs, call, i, read_dfs,
                   raised, ret, readOut, writeOut, written_dfs>>

\* read() returned: lines 133-135 print the registry, log the milestone and
\* enter write(read_dfs).
ExecuteWriteStage ==
    /\ pc = "Reading"
    /\ call = "execute"
    /\ i > Len(input_specs)
    /\ events' = events \o <<Ev("print", 0, "-"), Ev("starting_write", 0, "-")>>
    /\ data' = read_dfs
    /\ written_dfs' = EmptyDict
    /\ j' = 1
    /\ pc' = "Writing"
    /\ UNCHANGED <<store, prev, acon, input_specs, output_specs, call, i, read_dfs, raised,
                   ret, readOut, writeOut>>

\* Variant of ExecuteReturn that returns the read registry.
ExecuteReturnRead ==
    /\ pc = "Writing"
    /\ call = "execute"
    /\ j > Len(output_specs)
    /\ events' = Append(events, Ev("finished", 0, "-"))
    /\ ret' = <<read_dfs>>
    /\ pc' = "Completed"
    /\ UNCHANGED <<store, prev, acon, input_specs, output_specs, call, i, j, read_dfs, data,
                   written_dfs, raised, readOut, writeOut>>

\* write() returned: lines 136 and 140.
ExecuteReturn ==
    /\ pc = "Writing"
    /\ call = "execute"
    /\ j > Len(output_specs)
    /\ events' = Append(events, Ev("finished", 0, "-"))
    /\ ret' = <<written_dfs>>
    /\ pc' = "Completed"
    /\ UNCHANGED <<store, prev, acon, input_specs, output_specs, call, i, j, read_dfs, data,
                   written_dfs, raised, readOut, writeOut>>

\* The caller invokes execute() once more on the same object after a run
\* has ended (lines 131-132 and 91 again); what the caller saw of the ended
\* run is kept in prev. The locals of the ended run's write() are garbage
\* until write() is entered again.
ExecuteAgain ==
    /\ pc \in {"Completed", "Failed"}
    /\ call = "execute"
    /\ prev = <<>>
    /\ prev' = <<[readOut |-> readOut, writeOut |-> writeOut,
                  ret |-> ret, raised |-> raised]>>
    /\ events' = <<Ev("starting_read", 0, "-")>>
    /\ readOut' = <<>>
    /\ writeOut' = <<>>
    /\ ret' = <<>>
    /\ raised' = <<>>
    /\ pc' = "Reading"
    /\ read_dfs' = EmptyDict
    /\ i' = 1
    /\ j' = 0
    /\ UNCHANGED <<acon, input_specs, output_specs, call, data, written_dfs, store>>

Next ==
    \/ Construct
    \/ ReadCall
    \/ ReadStep
    \/ ReadReturn
    \/ WriteCall
    \/ WriteStep
    \/ WriteReturn
    \/ ExecuteCall
    \/ ExecuteWriteStage
    \/ ExecuteReturn

Spec == Init /\ [][Next]_vars

TypeOK ==
    /\ pc \in {"New", "ConstructFailed", "NotStarted", "Reading", "Writing",
               "Completed", "Failed"}
    /\ call \in {"none", "read", "write", "execute"}
    /\ Len(raised) <= 1
    /\ Len(ret) <= 1

\* ------------------------------------------------------------- helpers
DistinctIds(specs) ==
    \A m, n \in 1..Len(specs) : specs[m].spec_id = specs[n].spec_id => m = n

Dispatched(kind) == SelectSeq(events, LAMBDA e : e.ev = kind)

IdSeq(specs) == [n \in 1..Len(specs) |-> specs[n].spec_id]
EvIdx(es) == [n \in 1..Len(es) |-> es[n].idx]
EvIds(es) == [n \in 1..Len(es) |-> es[n].id]

\* read() has returned its registry: to the direct caller, or to execute().
ReadFinished ==
    \/ call = "read" /\ pc = "Completed"
    \/ call = "execute" /\ j >= 1
ReadResult == IF call = "read" THEN ret[1] ELSE data

\* write(data) has been entered / has ended.
WriteEntered == call \in {"write", "execute"} /\ j >= 1
WriteSucceeded == WriteEntered /\ pc = "Completed"
WriteFailed == WriteEntered /\ pc = "Failed"

\* Indices of the output specs whose input_id is no key of the registry.
Dangling == {k \in 1..Len(output_specs) : ~HasKey(data, output_specs[k].input_id)}
Min(S) == CHOOSE x \in S : \A y \in S : x <= y
Max(S) == CHOOSE x \in S : \A y \in S : x >= y

\* ------------------------------------------------------------------ C1
\* C1: when the N input specs have pairwise distinct spec_ids and every
\* reader dispatch succeeded, the registry read() returns has exactly N
\* entries, the n-th being the n-th spec's spec_id mapped to the handle the
\* reader returned for that spec (so keys are in declaration order).
C1_ReadRegistry ==
    (ReadFinished /\ DistinctIds(input_specs))
    => /\ Len(readOut) = Len(input_specs)
       /\ \A n \in 1..Len(readOut) : readOut[n].tag = "ok"
       /\ Len(ReadResult) = Len(input_specs)
       /\ Keys(ReadResult) = {input_specs[n].spec_id : n \in 1..Len(input_specs)}
       /\ \A n \in 1..Len(input_specs) :
             ReadResult[n] = <<input_specs[n].spec_id, readOut[n].h>>

C1_Witness ==
    /\ call = "read" /\ pc = "Completed"
    /\ Len(input_specs) = 2
    /\ DistinctIds(input_specs)
    /\ ret = << << <<"b", "H1">>, <<"a", "H2">> >> >>

\* ------------------------------------------------------------------ C2
\* C2 as stated: whenever write() has ended and some output spec's
\* input_id is no key of the registry, write() failed with the lookup error
\* for the first such spec and no writer dispatch happened for it or for a
\* later one.
C2_Original ==
    (WriteEntered /\ pc \in {"Completed", "Failed"} /\ Dangling # {})
    => /\ pc = "Failed"
       /\ raised = <<KeyError(output_specs[Min(Dangling)].input_id)>>
       /\ \A n \in 1..Len(events) :
             events[n].ev = "writer_dispatch" => events[n].idx < Min(Dangling)

\* C2 amended: with a dangling output spec, write() never completes; the
\* writer is never dispatched for the first dangling spec or any later one;
\* when write() fails, the error is the lookup error naming that spec's
\* input_id if every earlier writer dispatch succeeded, and otherwise the
\* error of the earlier writer dispatch that failed.
C2_DanglingFails ==
    (WriteEntered /\ Dangling # {})
    => /\ pc # "Completed"
       /\ \A n \in 1..Len(events) :
             events[n].ev = "writer_dispatch" => events[n].idx < Min(Dangling)
       /\ pc = "Failed"
          => IF \A n \in 1..Len(writeOut) : writeOut[n].tag # "err"
             THEN /\ raised = <<KeyError(output_specs[Min(Dangling)].input_id)>>
                  /\ Len(writeOut) = Min(Dangling) - 1
             ELSE raised = <<writeOut[Len(writeOut)].err>>

C2_Witness ==
    /\ WriteFailed
    /\ Dangling = {2}
    /\ Len(writeOut) = 1
    /\ raised = <<KeyError(output_specs[2].input_id)>>

\* ------------------------------------------------------------------ C3
\* C3: in execute(), once the reader dispatch of the i-th input spec has
\* failed, it is the last reader dispatch, the write stage is never
\* entered, no writer dispatch happens, nothing is returned and execute()
\* raises exactly the reader's error.
C3_ReadFailureAborts ==
    \A n \in 1..Len(readOut) :
        (call = "execute" /\ readOut[n].tag = "err")
        => /\ n = Len(readOut)
           /\ Len(Dispatched("reader_dispatch")) = n
           /\ Dispatched("reader_dispatch")[n].idx = n
           /\ Len(writeOut) = 0
           /\ Dispatched("writer_dispatch") = <<>>
           /\ Dispatched("starting_write") = <<>>
           /\ j = 0
           /\ ret = <<>>
           /\ pc = "Failed"
           /\ raised = <<readOut[n].err>>

C3_Witness ==
    /\ call = "execute"
    /\ Len(input_specs) = 2
    /\ Len(output_specs) >= 1
    /\ Len(readOut) = 1
    /\ readOut[1].tag = "err"
    /\ pc = "Failed"

\* What the k-th output spec put into written_dfs (lines 121-124), given the
\* result its writer dispatch returned.
Contributes(k, key) ==
    IF Truthy(writeOut[k]) THEN HasKey(writeOut[k].map, key)
    ELSE output_specs[k].spec_id = key
Contribution(k, key) ==
    IF Truthy(writeOut[k]) THEN GetItem(writeOut[k].map, key)
    ELSE GetItem(data, output_specs[k].input_id)
Contributors(key) == {k \in 1..Len(output_specs) : Contributes(k, key)}
AllKeys == InputIds \cup OutputIds \cup RefIds

\* ------------------------------------------------------------------ C4
\* C4 as stated: after a successful write(), every output spec whose writer
\* dispatch returned no mapping has its spec_id mapped, in the written-output
\* registry, to the handle registry[input_id].
C4_Original ==
    WriteSucceeded
    => \A k \in 1..Len(output_specs) :
          writeOut[k].tag = "none"
          => /\ HasKey(ret[1], output_specs[k].spec_id)
             /\ GetItem(ret[1], output_specs[k].spec_id)
                  = GetItem(data, output_specs[k].input_id)

\* C4 amended: after a successful write(), every output spec whose writer
\* dispatch returned no mapping has its spec_id as a key of the
\* written-output registry, mapped to the very handle registry[input_id]
\* unless a later-declared output spec contributed that same key (its own
\* pass-through under an equal spec_id, or a returned mapping holding it).
C4_PassThrough ==
    WriteSucceeded
    => \A k \in 1..Len(output_specs) :
          writeOut[k].tag = "none"
          => /\ HasKey(ret[1], output_specs[k].spec_id)
             /\ (\A l \in (k + 1)..Len(output_specs) :
                    ~Contributes(l, output_specs[k].spec_id))
                => GetItem(ret[1], output_specs[k].spec_id)
                     = GetItem(data, output_specs[k].input_id)

C4_Witness ==
    /\ WriteSucceeded
    /\ Len(output_specs) = 2
    /\ writeOut[1].tag = "none"
    /\ writeOut[2].tag = "none"
    /\ DistinctIds(output_specs)
    /\ output_specs[1].input_id # output_specs[2].input_id
    /\ GetItem(data, "a") # GetItem(data, "b")

\* ------------------------------------------------------------------ C5
\* C5: after a successful write(), every key of every mapping a writer
\* dispatch returned is a key of the written-output registry, and every key
\* contributed by one or more output specs (through a returned mapping or
\* through pass-through under spec_id) holds the value contributed by the
\* latest-declared of them.
C5_LastDeclaredWins ==
    WriteSucceeded
    => /\ \A k \in 1..Len(output_specs) :
             Keys(writeOut[k].map) \subseteq Keys(ret[1])
       /\ \A key \in AllKeys :
             Contributors(key) # {}
             => /\ HasKey(ret[1], key)
                /\ GetItem(ret[1], key) = Contribution(Max(Contributors(key)), key)
       /\ \A key \in Keys(ret[1]) : Contributors(key) # {}

C5_Witness ==
    /\ WriteSucceeded
    /\ Len(output_specs) = 2
    /\ writeOut[1].map = << <<"s", "H1">> >>
    /\ writeOut[2].map = << <<"s", "H2">> >>
    /\ ret = << << <<"s", "H2">> >> >>

\* ------------------------------------------------------------------ C6
\* Index of the input spec named id (unique when spec_ids are distinct).
InputIndex(id) == CHOOSE n \in 1..Len(input_specs) : input_specs[n].spec_id = id

C6_Pre ==
    /\ DistinctIds(input_specs)
    /\ DistinctIds(output_specs)
    /\ \A k \in 1..Len(output_specs) :
          \E n \in 1..Len(input_specs) :
             input_specs[n].spec_id = output_specs[k].input_id
    /\ Len(writeOut) = Len(output_specs)
    /\ \A k \in 1..Len(writeOut) : writeOut[k].tag = "none"

\* C6: with distinct input spec_ids, distinct output spec_ids, every
\* input_id naming an input spec, and every writer dispatch returning
\* nothing, execute() returns a registry whose keys are exactly the output
\* spec_ids, each mapped to the handle the reader returned for the input
\* spec its input_id names.
C6_EndToEnd ==
    (call = "execute" /\ pc = "Completed" /\ C6_Pre)
    => /\ Len(ret) = 1
       /\ Len(ret[1]) = Len(output_specs)
       /\ Keys(ret[1]) = {output_specs[k].spec_id : k \in 1..Len(output_specs)}
       /\ \A k \in 1..Len(output_specs) :
             GetItem(ret[1], output_specs[k].spec_id)
               = readOut[InputIndex(output_specs[k].input_id)].h

C6_Witness ==
    /\ call = "execute" /\ pc = "Completed" /\ C6_Pre
    /\ IdSeq(input_specs) = <<"a", "b">>
    /\ ret = << << <<"o", "H2">>, <<"s", "H1">> >> >>
    /\ output_specs[1].input_id = "b"

\* ------------------------------------------------------------------ C7
\* C7: a successful write() has dispatched the writer exactly once per
\* output spec, in declaration order; a successful read() has dispatched
\* the reader exactly once per input spec, in declaration order.
C7_DispatchOrder ==
    /\ WriteSucceeded
       => /\ EvIdx(Dispatched("writer_dispatch")) = [n \in 1..Len(output_specs) |-> n]
          /\ EvIds(Dispatched("writer_dispatch")) = IdSeq(output_specs)
          /\ Len(writeOut) = Len(output_specs)
    /\ ReadFinished
       => /\ EvIdx(Dispatched("reader_dispatch")) = [n \in 1..Len(input_specs) |-> n]
          /\ EvIds(Dispatched("reader_dispatch")) = IdSeq(input_specs)
          /\ Len(readOut) = Len(input_specs)

C7_Witness ==
    /\ call = "execute" /\ pc = "Completed"
    /\ IdSeq(input_specs) = <<"b", "a">>
    /\ IdSeq(output_specs) = <<"s", "o">>
    /\ Len(Dispatched("writer_dispatch")) = 2
    /\ Len(Dispatched("reader_dispatch")) = 2

\* ------------------------------------------------------------------ C8
ExecuteTransitions ==
    { <<"NotStarted", "Reading">>, <<"Reading", "Reading">>,
      <<"Reading", "Writing">>, <<"Reading", "Failed">>,
      <<"Writing", "Writing">>, <<"Writing", "Completed">>,
      <<"Writing", "Failed">> }

\* C8: every step of a run of execute() is a transition of
\* NotStarted -> Reading -> Writing -> Completed with Failed entered only
\* from Reading or Writing; a writer dispatch happens only in Writing and
\* only after every input spec was read successfully; a reader dispatch
\* happens only in Reading, before the write stage has begun; and no step
\* leaves Completed or Failed.
C8_StateMachine ==
    [][ call' = "execute"
        => /\ <<pc, pc'>> \in ExecuteTransitions
           /\ pc \notin {"Completed", "Failed"}
           /\ Len(writeOut') > Len(writeOut)
              => /\ pc = "Writing"
                 /\ Len(readOut) = Len(input_specs)
                 /\ \A n \in 1..Len(readOut) : readOut[n].tag = "ok"
                 /\ readOut' = readOut
           /\ Len(readOut') > Len(readOut)
              => /\ pc = "Reading"
                 /\ writeOut = <<>>
                 /\ writeOut' = <<>>
                 /\ Dispatched("starting_write") = <<>>
           /\ (events' # events /\ pc' = pc) => pc \in {"Reading", "Writing"}
      ]_vars

C8_Witness ==
    /\ call = "execute"
    /\ pc = "Completed"
    /\ Len(readOut) = 2
    /\ Len(writeOut) = 2

\* ------------------------------------------------------------------ C9
NoRepeat(es) == \A m, n \in 1..Len(es) : es[m].idx = es[n].idx => m = n

\* C9: in a run of execute(), a dispatch failure fails the run at once and
\* the caller sees exactly the error the dispatch raised; no spec is
\* dispatched more than once; and a failed run returns nothing.
C9_ErrorsUnchanged ==
    call = "execute"
    => /\ NoRepeat(Dispatched("reader_dispatch"))
       /\ NoRepeat(Dispatched("writer_dispatch"))
       /\ \A n \in 1..Len(readOut) :
             readOut[n].tag = "err" => (pc = "Failed" /\ raised = <<readOut[n].err>>)
       /\ \A n \in 1..Len(writeOut) :
             writeOut[n].tag = "err" => (pc = "Failed" /\ raised = <<writeOut[n].err>>)
       /\ pc = "Failed" => (ret = <<>> /\ Len(raised) = 1)
       /\ pc = "Completed" => raised = <<>>

C9_Witness ==
    /\ call = "execute"
    /\ pc = "Failed"
    /\ Len(writeOut) = 2
    /\ writeOut[2].tag = "err"
    /\ raised = <<BackendError("E2")>>

\* ----------------------------------------------------------------- C10
\* C10: when the configuration document lacks input_specs or lacks
\* output_specs, construction fails with the lookup error naming a missing
\* collection, the orchestrator never becomes usable, and no reader or
\* writer dispatch (nor any logged event) ever happens.
C10_MissingCollection ==
    ("input_specs" \notin DOMAIN acon \/ "output_specs" \notin DOMAIN acon)
    => /\ pc \in {"New", "ConstructFailed"}
       /\ pc = "ConstructFailed"
          => /\ Len(raised) = 1
             /\ raised[1].type = "KeyError"
             /\ raised[1].arg \in {"input_specs", "output_specs"} \ DOMAIN acon
       /\ pc = "New" => raised = <<>>
       /\ events = <<>>
       /\ readOut = <<>>
       /\ writeOut = <<>>
       /\ call = "none"

C10_Witness ==
    /\ pc = "ConstructFailed"
    /\ DOMAIN acon = {"input_specs"}
    /\ Len(acon["input_specs"]) = 1
    /\ raised = <<KeyError("output_specs")>>

\* ----------------------------------------------------------------- C11
\* Configuration documents whose output entries carry any subset of the
\* optional fields.
OptionalFields == {"write_type", "data_format", "db_table", "location", "partitions"}

ProvidedValue(k) ==
    CASE k = "write_type" -> "append"
      [] k = "data_format" -> "csv"
      [] k = "db_table" -> "db.t"
      [] k = "location" -> "/loc"
      [] k = "partitions" -> <<"p">>

ParseEntries ==
    {[k \in {"spec_id", "input_id"} \cup D |->
         IF k = "spec_id" THEN s
         ELSE IF k = "input_id" THEN "a"
         ELSE ProvidedValue(k)] :
       s \in OutputIds, D \in SUBSET OptionalFields}

InitParse ==
    /\ \E outs \in SeqsUpTo(ParseEntries, MaxOutputs) :
          acon = [input_specs |-> <<[spec_id |-> "a"]>>, output_specs |-> outs]
    /\ input_specs = <<>>
    /\ output_specs = <<>>
    /\ pc = "New"
    /\ call = "none"
    /\ i = 0
    /\ j = 0
    /\ read_dfs = EmptyDict
    /\ data = EmptyDict
    /\ written_dfs = EmptyDict
    /\ raised = <<>>
    /\ ret = <<>>
    /\ events = <<>>
    /\ readOut = <<>>
    /\ writeOut = <<>>
    /\ store = <<>>
    /\ prev = <<>>

NextParse == Construct

SpecParse == InitParse /\ [][NextParse]_vars

\* C11: the parsed output specs have the length and order of the
\* document's output_specs; every provided field keeps its value;
\* data_format omitted gives the canonical format, partitions omitted gives
\* the empty sequence, write_type / db_table / location omitted give None.
C11_OutputDefaults ==
    pc = "NotStarted"
    => /\ Len(output_specs) = Len(acon["output_specs"])
       /\ \A n \in 1..Len(output_specs) :
            /\ output_specs[n].spec_id = acon["output_specs"][n]["spec_id"]
            /\ output_specs[n].input_id = acon["output_specs"][n]["input_id"]
            /\ \A k \in OptionalFields \cap DOMAIN acon["output_specs"][n] :
                  output_specs[n][k] = acon["output_specs"][n][k]
            /\ "data_format" \notin DOMAIN acon["output_specs"][n]
               => output_specs[n].data_format = "delta"
            /\ "partitions" \notin DOMAIN acon["output_specs"][n]
               => output_specs[n].partitions = <<>>
            /\ \A k \in {"write_type", "db_table", "location"}
                          \ DOMAIN acon["output_specs"][n] :
                  output_specs[n][k] = "None"

C11_Witness ==
    /\ pc = "NotStarted"
    /\ Len(output_specs) = 2
    /\ DOMAIN acon["output_specs"][1] = {"spec_id", "input_id"}
    /\ DOMAIN acon["output_specs"][2] = {"spec_id", "input_id"} \cup OptionalFields
    /\ output_specs[1].data_format = "delta"
    /\ output_specs[2].data_format = "csv"
    /\ output_specs[2].partitions = <<"p">>

\* ----------------------------------------------------------------- C12
\* The document has both collections and an output entry whose input_id is
\* no input spec_id.
DocDangling ==
    /\ {"input_specs", "output_specs"} \subseteq DOMAIN acon
    /\ \E n \in 1..Len(acon["output_specs"]) :
          \A m \in 1..Len(acon["input_specs"]) :
             acon["input_specs"][m]["spec_id"] # acon["output_specs"][n]["input_id"]

\* Output specs whose input_id is no input spec_id.
DanglingRef ==
    {k \in 1..Len(output_specs) :
        \A m \in 1..Len(input_specs) :
           input_specs[m].spec_id # output_specs[k].input_id}

\* C12: a document with a dangling input_id is accepted at construction;
\* in execute() a lookup error is raised only in the write stage, after the
\* reader was dispatched once for every input spec and all succeeded (the
\* read stage is cut short only by a reader failure); the run never
\* completes; and when the first output spec is the dangling one the lookup
\* error is raised before any writer dispatch.
C12_DeferredCheck ==
    DocDangling
    => /\ pc # "ConstructFailed"
       /\ pc \in {"New", "NotStarted"} => raised = <<>>
       /\ call = "execute"
          => /\ pc # "Completed"
             /\ (pc = "Failed" /\ j = 0)
                => (readOut # <<>> /\ readOut[Len(readOut)].tag = "err"
                    /\ raised[1].type # "KeyError")
             /\ j >= 1
                => /\ EvIdx(Dispatched("reader_dispatch"))
                        = [n \in 1..Len(input_specs) |-> n]
                   /\ \A n \in 1..Len(readOut) : readOut[n].tag = "ok"
                   /\ Len(Dispatched("starting_write")) = 1
             /\ (pc = "Failed" /\ j >= 1 /\ raised[1].type = "KeyError")
                => /\ j \in DanglingRef
                   /\ raised = <<KeyError(output_specs[j].input_id)>>
             /\ (pc = "Failed" /\ j >= 1 /\ 1 \in DanglingRef)
                => /\ raised = <<KeyError(output_specs[1].input_id)>>
                   /\ writeOut = <<>>
                   /\ Dispatched("writer_dispatch") = <<>>

C12_Witness ==
    /\ DocDangling
    /\ call = "execute"
    /\ pc = "Failed"
    /\ Len(readOut) = 2
    /\ 1 \in DanglingRef
    /\ Len(output_specs) = 2
    /\ raised = <<KeyError("o")>>

\* ----------------------------------------------------------------- C13
\* C13: when write() has failed at the k-th output spec, the writer was
\* dispatched for exactly the specs 1..k-1, all successfully, plus k itself
\* when it is the dispatch of k that failed; the external store still holds
\* what those k-1 writes committed; nothing after k was dispatched.
C13_NoRollback ==
    WriteFailed
    => /\ j \in 1..Len(output_specs)
       /\ EvIdx(Dispatched("writer_dispatch")) = [n \in 1..Len(writeOut) |-> n]
       /\ \A n \in 1..(j - 1) : writeOut[n].tag # "err"
       /\ IF HasKey(data, output_specs[j].input_id)
          THEN /\ Len(writeOut) = j
               /\ writeOut[j].tag = "err"
               /\ raised = <<writeOut[j].err>>
          ELSE /\ Len(writeOut) = j - 1
               /\ raised = <<KeyError(output_specs[j].input_id)>>
       /\ store = [n \in 1..(j - 1) |-> output_specs[n].spec_id]

C13_Witness ==
    /\ WriteFailed
    /\ j = 2
    /\ Len(writeOut) = 2
    /\ writeOut[2].tag = "err"
    /\ store = <<output_specs[1].spec_id>>

\* ----------------------------------------------------------------- C14
InputIdSet == {input_specs[n].spec_id : n \in 1..Len(input_specs)}
LastInput(id) == Max({n \in 1..Len(input_specs) : input_specs[n].spec_id = id})

\* C14: when read() has returned, the reader was dispatched once for every
\* input spec, duplicates included, and the registry has one entry per
\* distinct spec_id, holding the handle returned for the last-declared
\* input spec of that spec_id.
C14_DuplicateInputs ==
    ReadFinished
    => /\ EvIdx(Dispatched("reader_dispatch")) = [n \in 1..Len(input_specs) |-> n]
       /\ Len(readOut) = Len(input_specs)
       /\ Keys(ReadResult) = InputIdSet
       /\ Len(ReadResult) = Cardinality(InputIdSet)
       /\ \A id \in InputIdSet :
             GetItem(ReadResult, id) = readOut[LastInput(id)].h

C14_Witness ==
    /\ call = "read" /\ pc = "Completed"
    /\ IdSeq(input_specs) = <<"a", "a">>
    /\ readOut[1].h = "H1"
    /\ readOut[2].h = "H2"
    /\ Len(Dispatched("reader_dispatch")) = 2
    /\ ret = << << <<"a", "H2">> >> >>

\* ----------------------------------------------------------------- C15
\* C15: no step of the write stage, successful or failing, changes the
\* registry handed to write() (nor the read registry it came from); only
\* the separate written-output registry takes the results, and it is what
\* write() returns.
C15_RegistryUntouched ==
    [][ pc = "Writing"
        => /\ data' = data
           /\ read_dfs' = read_dfs
           /\ call = "execute" => data = read_dfs
           /\ pc' = "Completed" => ret' = <<written_dfs>>
      ]_vars

C15_Witness ==
    /\ WriteSucceeded
    /\ Len(writeOut) = 2
    /\ Len(data) = 2
    /\ Keys(written_dfs) \cap Keys(data) = {}
    /\ written_dfs # <<>>

\* ----------------------------------------------------------------- C16
LogKinds == {"starting_read", "found_input", "starting_write", "found_output",
             "finished"}
Logged == SelectSeq(events, LAMBDA e : e.ev \in LogKinds)
Positions(kind) == {n \in 1..Len(events) : events[n].ev = kind}

\* C16: in a run of execute(), "starting read stage" is the first event;
\* every reader dispatch is immediately preceded by the "found input
\* specification" event of its spec, and every such event is immediately
\* followed by that dispatch; "starting write stage" comes after every
\* reader dispatch and before every "found output specification" event and
\* writer dispatch; every writer dispatch is immediately preceded by the
\* "found output specification" event of its spec; "execution finished" is
\* logged last and only when every dispatch succeeded; after a failure the
\* last logged event belongs to the stage that was in progress.
C16_LogOrder ==
    (call = "execute" /\ events # <<>>)
    => /\ events[1].ev = "starting_read"
       /\ \A n \in 1..Len(events) :
             CASE events[n].ev = "starting_read" -> n = 1
               [] events[n].ev = "reader_dispatch" ->
                     /\ n > 1
                     /\ events[n - 1]
                          = Ev("found_input", events[n].idx, events[n].id)
               [] events[n].ev = "found_input" ->
                     /\ n < Len(events)
                     /\ events[n + 1]
                          = Ev("reader_dispatch", events[n].idx, events[n].id)
               [] events[n].ev = "starting_write" ->
                     \A m \in 1..Len(events) :
                        CASE events[m].ev = "reader_dispatch" -> m < n
                          [] events[m].ev \in {"found_output", "writer_dispatch"} -> m > n
                          [] events[m].ev = "starting_write" -> m = n
                          [] OTHER -> TRUE
               [] events[n].ev = "writer_dispatch" ->
                     /\ n > 1
                     /\ events[n - 1]
                          = Ev("found_output", events[n].idx, events[n].id)
               [] events[n].ev = "found_output" ->
                     \E m \in 1..(n - 1) : events[m].ev = "starting_write"
               [] events[n].ev = "finished" ->
                     /\ n = Len(events)
                     /\ pc = "Completed"
                     /\ Len(readOut) = Len(input_specs)
                     /\ Len(writeOut) = Len(output_specs)
                     /\ \A m \in 1..Len(readOut) : readOut[m].tag = "ok"
                     /\ \A m \in 1..Len(writeOut) : writeOut[m].tag # "err"
               [] OTHER -> TRUE
       /\ pc = "Completed" => events[Len(events)].ev = "finished"
       /\ pc = "Failed"
          => /\ events[Len(events)].ev # "finished"
             /\ IF j = 0
                THEN Logged[Len(Logged)].ev = "found_input"
                ELSE Logged[Len(Logged)].ev = "found_output"

C16_Witness ==
    /\ call = "execute"
    /\ pc = "Failed"
    /\ j = 2
    /\ Len(readOut) = 2
    /\ Len(writeOut) = 2
    /\ Len(events) = 11

\* ----------------------------------------------------------------- C17
MaxRerunSpecs == 1

RerunAcons ==
    {[input_specs |-> ins, output_specs |-> outs] :
        ins \in SeqsUpTo({[spec_id |-> "a"]}, MaxRerunSpecs),
        outs \in SeqsUpTo({[spec_id |-> s, input_id |-> "a"] : s \in OutputIds},
                          MaxRerunSpecs)}

InitRerun ==
    /\ acon \in RerunAcons
    /\ input_specs = <<>>
    /\ output_specs = <<>>
    /\ pc = "New"
    /\ call = "none"
    /\ i = 0
    /\ j = 0
    /\ read_dfs = EmptyDict
    /\ data = EmptyDict
    /\ written_dfs = EmptyDict
    /\ raised = <<>>
    /\ ret = <<>>
    /\ events = <<>>
    /\ readOut = <<>>
    /\ writeOut = <<>>
    /\ store = <<>>
    /\ prev = <<>>

NextRerun ==
    \/ Construct
    \/ ExecuteCall
    \/ ReadStep
    \/ ExecuteWriteStage
    \/ WriteStep
    \/ ExecuteReturn
    \/ ExecuteAgain

SpecRerun == InitRerun /\ [][NextRerun]_vars

\* Output specs of the current run whose writer dispatch succeeded and put
\* key into written_dfs.
RunContributors(key) ==
    {k \in 1..Len(writeOut) : writeOut[k].tag # "err" /\ Contributes(k, key)}
\* Input specs read so far in the current run under spec_id id.
RunReads(id) ==
    {n \in 1..Len(readOut) : readOut[n].tag = "ok" /\ input_specs[n].spec_id = id}

\* C17: in a second run of execute() on the same object, the read registry
\* holds only what this run's reader dispatches returned and the
\* written-output registry only what this run's writer dispatches
\* contributed; when the dispatches of the second run behave as in the
\* first, the second run ends as the first did, returning an equal registry.
C17_NoCarryOver ==
    prev # <<>>
    => /\ \A id \in Keys(read_dfs) :
             /\ RunReads(id) # {}
             /\ GetItem(read_dfs, id) = readOut[Max(RunReads(id))].h
       /\ j >= 1
          => \A key \in Keys(written_dfs) :
                /\ RunContributors(key) # {}
                /\ GetItem(written_dfs, key)
                     = Contribution(Max(RunContributors(key)), key)
       /\ (pc \in {"Completed", "Failed"}
           /\ readOut = prev[1].readOut /\ writeOut = prev[1].writeOut)
          => (ret = prev[1].ret /\ raised = prev[1].raised)

C17_Witness ==
    /\ prev # <<>>
    /\ pc = "Completed"
    /\ readOut = prev[1].readOut
    /\ writeOut = prev[1].writeOut
    /\ Len(writeOut) = 1
    /\ ret = prev[1].ret
    /\ ret[1] # <<>>

\* ----------------------------------------------------------------- C18
\* The k-th output spec's key spec_id was not contributed again by a later
\* successful dispatch so far.
NotOverwritten(k) ==
    \A l \in (k + 1)..Len(writeOut) :
       writeOut[l].tag # "err"
       => /\ ~HasKey(writeOut[l].map, output_specs[k].spec_id)
          /\ writeOut[l].map = <<>>
             => output_specs[l].spec_id # output_specs[k].spec_id

\* C18: a writer dispatch that returned an empty mapping is handled as one
\* that returned nothing: the output spec's spec_id becomes a key of the
\* written-output registry, mapped to registry[input_id] (until a later
\* output spec contributes that key again); a non-empty mapping has all its
\* keys merged; so every successfully dispatched output spec contributes
\* one key or more.
C18_EmptyMapping ==
    WriteEntered
    => \A k \in 1..Len(writeOut) :
          writeOut[k].tag # "err"
          => /\ writeOut[k].map = <<>>
                => /\ HasKey(written_dfs, output_specs[k].spec_id)
                   /\ NotOverwritten(k)
                      => GetItem(written_dfs, output_specs[k].spec_id)
                           = GetItem(data, output_specs[k].input_id)
             /\ writeOut[k].map # <<>>
                => Keys(writeOut[k].map) \subseteq Keys(written_dfs)
             /\ written_dfs # <<>>

C18_Witness ==
    /\ WriteSucceeded
    /\ Len(writeOut) = 1
    /\ writeOut[1].tag = "map"
    /\ writeOut[1].map = <<>>
    /\ output_specs[1].input_id = "a"
    /\ ret = << << <<output_specs[1].spec_id, GetItem(data, "a")>> >> >>

\* ----------------------------------------------------------------- C19
\* C19: the writer is dispatched only for output specs whose input_id is a
\* key of the registry passed to write(); an output spec whose input_id is
\* a key of the written-output registry only (contributed by earlier output
\* specs) is never dispatched: write() stops at it and fails with the
\* lookup error naming that input_id.
C19_ResolvedAgainstData ==
    WriteEntered
    => /\ \A n \in Positions("writer_dispatch") :
             HasKey(data, output_specs[events[n].idx].input_id)
       /\ \A k \in 1..Len(output_specs) :
             (/\ j >= k
              /\ ~HasKey(data, output_specs[k].input_id)
              /\ HasKey(written_dfs, output_specs[k].input_id))
             => /\ j = k
                /\ pc \in {"Writing", "Failed"}
                /\ Len(writeOut) = k - 1
                /\ pc = "Failed" => raised = <<KeyError(output_specs[k].input_id)>>

C19_Witness ==
    /\ WriteFailed
    /\ j = 2
    /\ output_specs[1].spec_id = "s"
    /\ output_specs[2].input_id = "o"
    /\ HasKey(written_dfs, "o")
    /\ ~HasKey(data, "o")
    /\ raised = <<KeyError("o")>>

\* ----------------------------------------------------------------- C20
\* A call that has started runs on: every dispatch returns or raises, and
\* the single thread of control takes its next step.
RunStep ==
    \/ ReadStep
    \/ ReadReturn
    \/ WriteStep
    \/ WriteReturn
    \/ ExecuteWriteStage
    \/ ExecuteReturn

\* Documents for the termination check: inputs named "a"; outputs that
\* resolve ("a") or dangle ("b"); and a document with no collection.
LiveAcons ==
    {[input_specs |-> ins, output_specs |-> outs] :
        ins \in SeqsUpTo({[spec_id |-> "a"]}, MaxInputs),
        outs \in SeqsUpTo({[spec_id |-> "o", input_id |-> "a"],
                           [spec_id |-> "s", input_id |-> "b"]}, MaxOutputs)}
    \cup {[other |-> <<>>]}

InitLive ==
    /\ acon \in LiveAcons
    /\ input_specs = <<>>
    /\ output_specs = <<>>
    /\ pc = "New"
    /\ call = "none"
    /\ i = 0
    /\ j = 0
    /\ read_dfs = EmptyDict
    /\ data = EmptyDict
    /\ written_dfs = EmptyDict
    /\ raised = <<>>
    /\ ret = <<>>
    /\ events = <<>>
    /\ readOut = <<>>
    /\ writeOut = <<>>
    /\ store = <<>>
    /\ prev = <<>>

SpecLive == InitLive /\ [][Next]_vars /\ WF_vars(RunStep)

\* C20: a run of execute() makes at most (number of input specs + number
\* of output specs) dispatch calls and eventually reaches Completed or
\* Failed; with both spec lists empty it does not fail, dispatches nothing
\* and completes with an empty written-output registry.
C20_Terminates ==
    /\ [](call = "execute"
          => /\ Len(readOut) + Len(writeOut)
                  <= Len(input_specs) + Len(output_specs)
             /\ Len(Dispatched("reader_dispatch")) = Len(readOut)
             /\ Len(Dispatched("writer_dispatch")) = Len(writeOut)
             /\ (input_specs = <<>> /\ output_specs = <<>>)
                => /\ pc # "Failed"
                   /\ readOut = <<>> /\ writeOut = <<>>
                   /\ pc = "Completed" => ret = <<EmptyDict>>)
    /\ (call = "execute") ~> (pc \in {"Completed", "Failed"})
    /\ (call = "execute" /\ input_specs = <<>> /\ output_specs = <<>>)
          ~> (pc = "Completed")

C20_Witness ==
    /\ call = "execute"
    /\ pc = "Completed"
    /\ Len(readOut) + Len(writeOut) = 4
    /\ Len(input_specs) = 2
====
